---- MODULE Spec2Model ----
(***************************************************************************)
(* All Occasion Cards backend (src/backend/app.py): a Flask service that   *)
(* serves a static content store and a filterable card catalog.            *)
(*                                                                         *)
(* Conventions of the model                                                *)
(*  - Python None is the empty tuple, a present value v is <<v>>.          *)
(*  - Prices are held in hundredths (4.99 is 499); rotations in tenths.    *)
(*  - A raw numeric query value is the sequence of its characters.         *)
(*  - A raw tags value is the sequence of its commas and of its maximal    *)
(*    comma-free runs, e.g. ",birthday" is <<",", "birthday">>.            *)
(*  - An f-string is the tuple of its literal part and its argument.       *)
(***************************************************************************)
EXTENDS Integers, Sequences, FiniteSets, TLC

VARIABLES website_data, debug, now, logLines, request, response, workers

vars == <<website_data, debug, now, logLines, request, response, workers>>

(***************************************************************************)
(* Bounds                                                                  *)
(***************************************************************************)
MaxTime == 2
MaxLogLines == 14
MaxTagTokens == 3

(***************************************************************************)
(* Python values                                                           *)
(***************************************************************************)
None == <<>>
Some(v) == <<v>>
IsNone(o) == o = <<>>
Val(o) == o[1]

(***************************************************************************)
(* The content store: WebsiteData._initialize_data                         *)
(***************************************************************************)
Card(i, n, c, d, p, u, r, t) ==
    [id |-> i, name |-> n, category |-> c, description |-> d, price |-> p,
     image_url |-> u, rotation |-> r, tags |-> t]

CatalogCards ==
    << Card(1, "Birthday Celebration", "birthday",
            "A vibrant birthday card with colorful balloons and confetti",
            499, "/images/cards/birthday-1.jpg", 25,
            <<"birthday", "celebration", "colorful">>),
       Card(2, "Sympathy & Comfort", "sympathy",
            "A gentle sympathy card with soft floral design",
            599, "/images/cards/sympathy-1.jpg", -18,
            <<"sympathy", "comfort", "floral">>),
       Card(3, "Wedding Congratulations", "wedding",
            "An elegant wedding card with gold accents",
            699, "/images/cards/wedding-1.jpg", 32,
            <<"wedding", "elegant", "gold">>),
       Card(4, "Thank You Note", "thank_you",
            "A heartfelt thank you card with handwritten style",
            399, "/images/cards/thank-you-1.jpg", -21,
            <<"thank_you", "handwritten", "heartfelt">>),
       Card(5, "Holiday Cheer", "holiday",
            "A festive holiday card with warm winter scenes",
            499, "/images/cards/holiday-1.jpg", 15,
            <<"holiday", "festive", "winter">>),
       Card(6, "Get Well Soon", "get_well",
            "A cheerful get well card with bright flowers",
            449, "/images/cards/get-well-1.jpg", -8,
            <<"get_well", "cheerful", "flowers">>) >>

\* Mutant: the declared list lacks the category of the last card.
CatalogCategories_without_get_well ==
    <<"birthday", "sympathy", "wedding", "thank_you", "holiday">>

CatalogCategories ==
    <<"birthday", "sympathy", "wedding", "thank_you", "holiday", "get_well">>

Gallery ==
    [title |-> "Our Collection", cards |-> CatalogCards,
     categories |-> CatalogCategories]

\* The attributes of the WebsiteData instance: the eight sections, each a
\* document, and the methods the class defines.
SectionAttrs ==
    {"header", "hero", "about", "gallery", "contact", "footer", "metadata", "theme"}

MethodAttrs == {"__init__", "_initialize_data"}

WebsiteData ==
    [a \in SectionAttrs \cup MethodAttrs |->
        CASE a = "gallery"  -> Some(Gallery)
          [] a = "metadata" -> Some([site_name |-> "All Occasion Cards",
                                     version |-> "1.0.0",
                                     last_updated |-> 0])
          [] a \in MethodAttrs -> Some([bound_method |-> a])
          [] OTHER -> Some([title |-> a])]

\* metadata.last_updated is datetime.now() at construction, instant 0 of the
\* model's clock.

\* getattr(website_data, name, None)
getattr(store, name) == IF name \in DOMAIN store THEN store[name] ELSE None

(***************************************************************************)
(* Query-parameter conversion                                              *)
(***************************************************************************)
Digits == {"0", "1", "2", "3", "4", "5", "6", "7", "8", "9"}

DigitVal(c) ==
    CASE c = "0" -> 0 [] c = "1" -> 1 [] c = "2" -> 2 [] c = "3" -> 3
      [] c = "4" -> 4 [] c = "5" -> 5 [] c = "6" -> 6 [] c = "7" -> 7
      [] c = "8" -> 8 [] c = "9" -> 9

AllDigits(s) == \A i \in 1..Len(s) : s[i] \in Digits

RECURSIVE DecimalValue(_)
DecimalValue(s) ==
    IF s = <<>> THEN 0
    ELSE DecimalValue(SubSeq(s, 1, Len(s) - 1)) * 10 + DigitVal(s[Len(s)])

\* float(raw) in hundredths, for decimal literals of at most two fraction
\* digits: optional sign, digits, optional point, digits, at least one digit.
\* Any other text raises ValueError, which is None here.
float(raw) ==
    LET signed == Len(raw) > 0 /\ raw[1] \in {"-", "+"}
        body   == IF signed THEN Tail(raw) ELSE raw
        dots   == {i \in 1..Len(body) : body[i] = "."}
        d      == CHOOSE i \in dots : TRUE
        ip     == IF dots = {} THEN body ELSE SubSeq(body, 1, d - 1)
        fp     == IF dots = {} THEN <<>> ELSE SubSeq(body, d + 1, Len(body))
        ok     == /\ Cardinality(dots) <= 1
                  /\ AllDigits(ip) /\ AllDigits(fp)
                  /\ Len(ip) + Len(fp) > 0
                  /\ Len(fp) <= 2
        frac   == IF Len(fp) = 1 THEN DigitVal(fp[1]) * 10 ELSE DecimalValue(fp)
        mag    == DecimalValue(ip) * 100 + frac
    IN  IF ~ok THEN None
        ELSE IF signed /\ raw[1] = "-" THEN Some(0 - mag) ELSE Some(mag)

\* Mutant: the price parameters are never read.
args_get_float_unread(arg) == None

\* request.args.get(key, type=float): the default (None) when the key is
\* absent and also when the conversion raises ValueError.
args_get_float(arg) ==
    IF IsNone(arg) THEN None ELSE float(Val(arg))

\* str.split(','): a comma closes a piece, an empty raw value is one empty
\* piece.
RECURSIVE split(_)
split(raw) ==
    IF raw = <<>> THEN <<"">>
    ELSE IF Head(raw) = "," THEN <<"">> \o split(Tail(raw))
    ELSE IF Len(raw) = 1 THEN <<Head(raw)>>
    ELSE <<Head(raw)>> \o split(Tail(Tail(raw)))

\* request.args.get('tags', '').split(',') if request.args.get('tags') else []
args_get_tags(arg) ==
    IF IsNone(arg) \/ Val(arg) = <<>> THEN <<>> ELSE split(Val(arg))

\* Python truthiness of an optional string
Truthy(o) == ~IsNone(o) /\ Val(o) # ""

(***************************************************************************)
(* get_cards: the filter chain                                             *)
(***************************************************************************)
category_match(card, category) == card.category = category
\* Mutant: an exclusive lower bound.
min_price_match_strict(card, min_price) == card.price > min_price
min_price_match(card, min_price) == card.price >= min_price
max_price_match(card, max_price) == card.price <= max_price
tags_match(card, tags) ==
    \E i \in 1..Len(tags) : \E j \in 1..Len(card.tags) : card.tags[j] = tags[i]

\* Mutant: the category filter is never applied.
filter_category_skipped(cards, category) == cards

filter_category(cards, category) ==
    IF Truthy(category)
    THEN LET c == Val(category)
         IN  SelectSeq(cards, LAMBDA card : category_match(card, c))
    ELSE cards

filter_min_price(cards, min_price) ==
    IF ~IsNone(min_price)
    THEN LET m == Val(min_price)
         IN  SelectSeq(cards, LAMBDA card : min_price_match(card, m))
    ELSE cards

filter_max_price(cards, max_price) ==
    IF ~IsNone(max_price)
    THEN LET m == Val(max_price)
         IN  SelectSeq(cards, LAMBDA card : max_price_match(card, m))
    ELSE cards

\* if tags and tags[0]
tags_applied(tags) == Len(tags) > 0 /\ tags[1] # ""

\* Mutant: the cards are collected tag by tag, in the order of the
\* requested tags.
RECURSIVE filter_tags_per_tag(_, _)
filter_tags_per_tag(cards, tags) ==
    IF tags = <<>> THEN cards
    ELSE IF tags[1] = "" THEN cards
    ELSE LET t == tags[1]
             hits == SelectSeq(cards, LAMBDA card :
                         \E j \in 1..Len(card.tags) : card.tags[j] = t)
         IN  IF Len(tags) = 1 THEN hits
             ELSE hits \o filter_tags_per_tag(cards, Tail(tags))

\* Mutant: the unwanted cards are removed from the list while it is being
\* iterated, so the card after each removed one is never looked at.
RECURSIVE remove_while_iterating(_, _, _)
remove_while_iterating(cards, i, tags) ==
    IF i > Len(cards) THEN cards
    ELSE IF tags_match(cards[i], tags)
         THEN remove_while_iterating(cards, i + 1, tags)
         ELSE remove_while_iterating(
                  SubSeq(cards, 1, i - 1) \o SubSeq(cards, i + 1, Len(cards)),
                  i + 1, tags)

filter_tags_removing(cards, tags) ==
    IF tags_applied(tags) THEN remove_while_iterating(cards, 1, tags) ELSE cards

filter_tags(cards, tags) ==
    IF tags_applied(tags)
    THEN SelectSeq(cards, LAMBDA card : tags_match(card, tags))
    ELSE cards

\* The four filters of get_cards applied to a card list, in source order.
apply_filters(cards, category, min_price, max_price, tags) ==
    filter_tags(
        filter_max_price(
            filter_min_price(
                filter_category(cards, category),
                min_price),
            max_price),
        tags)

\* The locals of get_cards after it has read the query parameters.
get_cards_params(args) ==
    [category  |-> args.category,
     min_price |-> args_get_float(args.min_price),
     max_price |-> args_get_float(args.max_price),
     tags      |-> args_get_tags(args.tags)]

\* Number of logger.debug calls of the filters that were applied.
filter_log_lines(p) ==
    (IF Truthy(p.category) THEN 1 ELSE 0)
    + (IF ~IsNone(p.min_price) THEN 1 ELSE 0)
    + (IF ~IsNone(p.max_price) THEN 1 ELSE 0)
    + (IF tags_applied(p.tags) THEN 1 ELSE 0)

(***************************************************************************)
(* Exceptions and the outcome of a view function                           *)
(***************************************************************************)
APIError(message, status_code, error_code) ==
    [type |-> "APIError", message |-> message, status_code |-> status_code,
     error_code |-> error_code]

\* Subscripting None, the only other exception the views can meet.
TypeError == [type |-> "TypeError"]

\* A view yields Return(status, body, lines) or Raise(exc, lines); lines
\* counts the logger calls made on the way.
Return(status, body, lines) ==
    [kind |-> "return", status |-> status, body |-> body, lines |-> lines]

Raise(exc, lines) == [kind |-> "raise", exc |-> exc, lines |-> lines]

\* except Exception as e: logger.error(...); raise APIError(failure)
except_exception(outcome, failure) ==
    IF outcome.kind = "raise"
    THEN Raise(failure, outcome.lines + 1)
    ELSE outcome

\* except APIError: raise
\* except Exception as e: logger.error(...); raise APIError(failure)
except_api_error_raise(outcome, failure) ==
    IF outcome.kind = "raise" /\ outcome.exc.type = "APIError"
    THEN outcome
    ELSE except_exception(outcome, failure)

\* Mutant: the HTTP status of the response is 500 whatever the error says.
handle_api_error_as_500(error, t) ==
    [status |-> 500,
     body   |-> [error |-> [message     |-> error.message,
                            status_code |-> error.status_code,
                            error_code  |-> error.error_code,
                            timestamp   |-> t]]]

\* @app.errorhandler(APIError)
handle_api_error(error, t) ==
    [status |-> error.status_code,
     body   |-> [error |-> [message     |-> error.message,
                            status_code |-> error.status_code,
                            error_code  |-> error.error_code,
                            timestamp   |-> t]]]

\* Mutant: the URL echoed is the path up to the variable segment only.
not_found_echoing_base(req, t) ==
    [status |-> 404,
     body   |-> [error |-> [message       |-> <<"Resource not found">>,
                            status_code   |-> 404,
                            error_code    |-> "NOT_FOUND",
                            timestamp     |-> t,
                            requested_url |->
                                [req EXCEPT !.section = "", !.idseg = <<>>]]]]

\* @app.errorhandler(404)
not_found(req, t) ==
    [status |-> 404,
     body   |-> [error |-> [message       |-> <<"Resource not found">>,
                            status_code   |-> 404,
                            error_code    |-> "NOT_FOUND",
                            timestamp     |-> t,
                            requested_url |-> req]]]

\* @app.errorhandler(500)
internal_error(t) ==
    [status |-> 500,
     body   |-> [error |-> [message     |-> <<"Internal server error">>,
                            status_code |-> 500,
                            error_code  |-> "INTERNAL_ERROR",
                            timestamp   |-> t]]]

\* Flask turns the outcome of a view into the response: a returned value as
\* it is, an APIError through handle_api_error, anything else through the
\* 500 handler.  Each error handler logs one line.
respond(outcome, t) ==
    IF outcome.kind = "return"
    THEN [status |-> outcome.status, body |-> outcome.body]
    ELSE IF outcome.exc.type = "APIError"
         THEN handle_api_error(outcome.exc, t)
         ELSE internal_error(t)

respond_lines(outcome) ==
    IF outcome.kind = "return" THEN outcome.lines ELSE outcome.lines + 1

(***************************************************************************)
(* View functions                                                          *)
(***************************************************************************)
health_check_try(store, dbg, t) ==
    IF IsNone(getattr(store, "metadata"))
    THEN Raise(TypeError, 1)
    ELSE Return(200,
                [status     |-> "healthy",
                 message    |-> "All Occasion Cards API is running",
                 timestamp  |-> t,
                 version    |-> Val(store["metadata"]).version,
                 debug_mode |-> dbg],
                2)

\* Mutant: the view has no except clause, its failures leave it as they are.
health_check_unguarded(store, dbg, t) == health_check_try(store, dbg, t)

health_check(store, dbg, t) ==
    except_exception(health_check_try(store, dbg, t),
                     APIError(<<"Health check failed">>, 500, "HEALTH_CHECK_FAILED"))

\* Mutant: the footer entry of the response is filled from another section.
get_all_content_misfiled(store) ==
    Return(200,
           [n \in SectionAttrs |->
               getattr(store, IF n = "footer" THEN "metadata" ELSE n)],
           2)

get_all_content(store) ==
    Return(200, [n \in SectionAttrs |-> getattr(store, n)], 2)

valid_sections ==
    {"header", "hero", "about", "gallery", "contact", "footer", "metadata", "theme"}

\* Mutant: the section name is not validated before the store is read.
get_section_content_try_unvalidated(store, section, t) ==
    LET section_data == getattr(store, section)
    IN  IF IsNone(section_data)
        THEN Raise(APIError(<<"Section not found: ", section>>, 404,
                            "SECTION_NOT_FOUND"), 1)
        ELSE Return(200,
                    [section |-> section, data |-> Val(section_data),
                     timestamp |-> t],
                    2)

get_section_content_try(store, section, t) ==
    IF section \notin valid_sections
    THEN Raise(APIError(<<"Invalid section: ", section>>, 400, "INVALID_SECTION"), 1)
    ELSE LET section_data == getattr(store, section)
         IN  IF IsNone(section_data)
             THEN Raise(APIError(<<"Section not found: ", section>>, 404,
                                 "SECTION_NOT_FOUND"), 1)
             ELSE Return(200,
                         [section |-> section, data |-> Val(section_data),
                          timestamp |-> t],
                         2)

\* Mutant: the except APIError clause is missing, so the errors of the try
\* block are caught by except Exception and rewrapped.
get_section_content_rewrapped(store, section, t) ==
    except_exception(
        get_section_content_try(store, section, t),
        APIError(<<"Failed to retrieve section content">>, 500,
                 "SECTION_RETRIEVAL_FAILED"))

get_section_content(store, section, t) ==
    except_api_error_raise(
        get_section_content_try(store, section, t),
        APIError(<<"Failed to retrieve section content">>, 500,
                 "SECTION_RETRIEVAL_FAILED"))

\* Mutant: total_count counts the catalog, not the cards returned.
get_cards_try_counting_catalog(store, args, t) ==
    IF IsNone(getattr(store, "gallery"))
    THEN Raise(TypeError, 1)
    ELSE LET p     == get_cards_params(args)
             cards == apply_filters(Val(store["gallery"]).cards,
                                    p.category, p.min_price, p.max_price, p.tags)
         IN  Return(200,
                    [cards       |-> cards,
                     total_count |-> Len(Val(store["gallery"]).cards),
                     filters_applied |->
                         [category  |-> p.category,
                          min_price |-> p.min_price,
                          max_price |-> p.max_price,
                          tags      |-> IF tags_applied(p.tags)
                                        THEN Some(p.tags) ELSE None],
                     timestamp   |-> t],
                    2 + filter_log_lines(p))

get_cards_try(store, args, t) ==
    IF IsNone(getattr(store, "gallery"))
    THEN Raise(TypeError, 1)
    ELSE LET p     == get_cards_params(args)
             cards == apply_filters(Val(store["gallery"]).cards,
                                    p.category, p.min_price, p.max_price, p.tags)
         IN  Return(200,
                    [cards       |-> cards,
                     total_count |-> Len(cards),
                     filters_applied |->
                         [category  |-> p.category,
                          min_price |-> p.min_price,
                          max_price |-> p.max_price,
                          tags      |-> IF tags_applied(p.tags)
                                        THEN Some(p.tags) ELSE None],
                     timestamp   |-> t],
                    2 + filter_log_lines(p))

\* Mutant: the filters are applied to the store's own list, in place.
cards_filtered_in_place(cards, args) ==
    LET p == get_cards_params(args)
    IN  apply_filters(cards, p.category, p.min_price, p.max_price, p.tags)

\* The store's card list once get_cards has run: the view filters a copy
\* (.copy()) and every filter binds the local name to a new list, so the
\* list of the store is what it was.
cards_after_get_cards(cards, args) == cards

\* Mutant: the view keeps its filtered list as the gallery's card list.
store_after_get_cards_caching(store, args) ==
    IF IsNone(getattr(store, "gallery")) THEN store
    ELSE [store EXCEPT !["gallery"] =
             Some([Val(@) EXCEPT !.cards = cards_filtered_in_place(@, args)])]

store_after_get_cards(store, args) ==
    IF IsNone(getattr(store, "gallery")) THEN store
    ELSE [store EXCEPT !["gallery"] =
             Some([Val(@) EXCEPT !.cards = cards_after_get_cards(@, args)])]

\* Mutant: a price range with min_price > max_price is rejected.
get_cards_rejecting_empty_range(store, args, t) ==
    LET p == get_cards_params(args)
    IN  IF ~IsNone(p.min_price) /\ ~IsNone(p.max_price)
           /\ Val(p.min_price) > Val(p.max_price)
        THEN Raise(APIError(<<"min_price exceeds max_price">>, 400,
                            "INVALID_PARAMETER"), 1)
        ELSE except_exception(get_cards_try(store, args, t),
                              APIError(<<"Failed to retrieve cards">>, 500,
                                       "CARDS_RETRIEVAL_FAILED"))

get_cards(store, args, t) ==
    except_exception(get_cards_try(store, args, t),
                     APIError(<<"Failed to retrieve cards">>, 500,
                              "CARDS_RETRIEVAL_FAILED"))

\* next((c for c in cards if c["id"] == card_id), None)
find_card(cards, card_id) ==
    LET hits == {i \in 1..Len(cards) : cards[i].id = card_id}
    IN  IF hits = {} THEN None
        ELSE Some(cards[CHOOSE i \in hits : \A j \in hits : i <= j])

get_card_by_id_try(store, card_id, t) ==
    IF IsNone(getattr(store, "gallery"))
    THEN Raise(TypeError, 1)
    ELSE LET card == find_card(Val(store["gallery"]).cards, card_id)
         IN  IF IsNone(card)
             THEN Raise(APIError(<<"Card not found with ID: ", card_id>>, 404,
                                 "CARD_NOT_FOUND"), 1)
             ELSE Return(200, [card |-> Val(card), timestamp |-> t], 2)

\* Mutant: the except APIError clause is missing, so the not-found error is
\* caught by except Exception and rewrapped.
get_card_by_id_rewrapped(store, card_id, t) ==
    except_exception(
        get_card_by_id_try(store, card_id, t),
        APIError(<<"Failed to retrieve card">>, 500, "CARD_RETRIEVAL_FAILED"))

get_card_by_id(store, card_id, t) ==
    except_api_error_raise(
        get_card_by_id_try(store, card_id, t),
        APIError(<<"Failed to retrieve card">>, 500, "CARD_RETRIEVAL_FAILED"))

\* Mutant: the timestamp is the one stored at startup in the metadata.
get_categories_try_stale(store, t) ==
    IF IsNone(getattr(store, "gallery"))
    THEN Raise(TypeError, 1)
    ELSE LET categories == Val(store["gallery"]).categories
         IN  Return(200,
                    [categories |-> categories, total_count |-> Len(categories),
                     timestamp |-> Val(store["metadata"]).last_updated],
                    2)

get_categories_try(store, t) ==
    IF IsNone(getattr(store, "gallery"))
    THEN Raise(TypeError, 1)
    ELSE LET categories == Val(store["gallery"]).categories
         IN  Return(200,
                    [categories |-> categories, total_count |-> Len(categories),
                     timestamp |-> t],
                    2)

\* Mutant: the categories are read off the cards, one per card.
get_categories_from_cards(store, t) ==
    IF IsNone(getattr(store, "gallery"))
    THEN Raise(APIError(<<"Failed to retrieve categories">>, 500,
                        "CATEGORIES_RETRIEVAL_FAILED"), 2)
    ELSE LET cards      == Val(store["gallery"]).cards
             categories == [i \in 1..Len(cards) |-> cards[i].category]
         IN  Return(200,
                    [categories |-> categories, total_count |-> Len(categories),
                     timestamp |-> t],
                    2)

get_categories(store, t) ==
    except_exception(get_categories_try(store, t),
                     APIError(<<"Failed to retrieve categories">>, 500,
                              "CATEGORIES_RETRIEVAL_FAILED"))

get_contact_info(store, t) ==
    Return(200, [contact |-> getattr(store, "contact"), timestamp |-> t], 2)

\* Mutant: the refusal of the diagnostic routes is raised as a 404.
debug_disabled_as_404 ==
    APIError(<<"Debug endpoint not available in production">>, 404, "DEBUG_DISABLED")

debug_disabled ==
    APIError(<<"Debug endpoint not available in production">>, 403, "DEBUG_DISABLED")

debug_data_structure(store, dbg, t) ==
    IF ~dbg THEN Raise(debug_disabled, 0)
    ELSE Return(200,
                [debug_info |->
                    [data_structure |-> [n \in SectionAttrs |-> getattr(store, n)],
                     app_config     |-> [debug |-> dbg, json_sort_keys |-> FALSE],
                     timestamp      |-> t]],
                2)

\* lines[-50:] if len(lines) > 50 else lines, on a log of n lines
LogTail == 50
recent_entries(n) == IF n > LogTail THEN LogTail ELSE n

\* Mutant: the view does not look at the debug flag.
debug_logs_unflagged(dbg, lines, t) ==
    Return(200,
           [debug_logs |-> [total_entries |-> recent_entries(lines + 1),
                            timestamp |-> t]],
           2)

\* The log holds `lines` lines when the request reaches the view; the view
\* adds its own "Debug logs requested" line before it reads the file.
debug_logs(dbg, lines, t) ==
    IF ~dbg THEN Raise(debug_disabled, 0)
    ELSE Return(200,
                [debug_logs |-> [total_entries |-> recent_entries(lines + 1),
                                 timestamp |-> t]],
                2)

(***************************************************************************)
(* Requests and routing                                                    *)
(***************************************************************************)
NoArgs == [category |-> None, min_price |-> None, max_price |-> None, tags |-> None]

\* A request URL: base is the path up to and including the last slash of a
\* rule with a variable part (or the whole path of a rule without one),
\* section and idseg are the variable segment, args the query string.
Url(base, section, idseg, args) ==
    [base |-> base, section |-> section, idseg |-> idseg, args |-> args]

NoRequest == Url("", "", <<>>, NoArgs)

\* The <int:...> converter: the segment matches \d+
int_converter_matches(seg) == Len(seg) > 0 /\ AllDigits(seg)

\* The <int:...> converter: int(segment)
int_converter_to_python(seg) == DecimalValue(seg)

\* The view the URL map selects; "not_found" when no rule matches.
endpoint(req) ==
    CASE req.base = "/api/health"      -> "health_check"
      [] req.base = "/api/content"     -> "get_all_content"
      [] req.base = "/api/content/"    -> "get_section_content"
      [] req.base = "/api/cards"       -> "get_cards"
      [] req.base = "/api/cards/"      ->
            IF int_converter_matches(req.idseg) THEN "get_card_by_id" ELSE "not_found"
      [] req.base = "/api/categories"  -> "get_categories"
      [] req.base = "/api/contact"     -> "get_contact_info"
      [] req.base = "/api/debug/data"  -> "debug_data_structure"
      [] req.base = "/api/debug/logs"  -> "debug_logs"
      [] OTHER                         -> "not_found"

\* The outcome of the view function the URL map selects for a request that
\* matches a rule.
view_outcome(req, store, dbg, lines, t) ==
    CASE endpoint(req) = "health_check"         -> health_check(store, dbg, t)
      [] endpoint(req) = "get_all_content"      -> get_all_content(store)
      [] endpoint(req) = "get_section_content"  ->
            get_section_content(store, req.section, t)
      [] endpoint(req) = "get_cards"            -> get_cards(store, req.args, t)
      [] endpoint(req) = "get_card_by_id"       ->
            get_card_by_id(store, int_converter_to_python(req.idseg), t)
      [] endpoint(req) = "get_categories"       -> get_categories(store, t)
      [] endpoint(req) = "get_contact_info"     -> get_contact_info(store, t)
      [] endpoint(req) = "debug_data_structure" -> debug_data_structure(store, dbg, t)
      [] endpoint(req) = "debug_logs"           -> debug_logs(dbg, lines, t)

(***************************************************************************)
(* Inputs                                                                  *)
(***************************************************************************)
CategoryValues ==
    {"", "birthday", "sympathy", "wedding", "thank_you", "holiday", "get_well",
     "anniversary"}

PriceValues ==
    { <<>>, <<"a", "b", "c">>, <<"4", ".", "9", "9">>, <<"5", ".", "0">>,
      <<"6", ".", "9", "9">> }

TagChunks == {"birthday", "gold", "Birthday"}

\* Raw tags values: the token sequences of at most MaxTagTokens tokens in
\* which no two comma-free runs are adjacent.
TagsValues ==
    LET tokens == TagChunks \cup {","}
        seqs   == UNION {[1..n -> tokens] : n \in 0..MaxTagTokens}
    IN  {s \in seqs : \A i \in 1..(Len(s) - 1) : s[i] = "," \/ s[i + 1] = ","}
        \cup {<<"birthday", ",", "celebration">>}

Opt(S) == {None} \cup {Some(v) : v \in S}

CardsArgs ==
    [category : Opt(CategoryValues), min_price : Opt(PriceValues),
     max_price : Opt(PriceValues), tags : Opt(TagsValues)]

CardsRequests == {Url("/api/cards", "", <<>>, a) : a \in CardsArgs}

\* The few filter specs the whole-service specification sends.
FewCardsArgs ==
    [category : {None, Some("birthday")},
     min_price : {None, Some(<<"5", ".", "0">>)},
     max_price : {None},
     tags : {None, Some(<<"gold">>), Some(<<",", "gold">>)}]

SectionNames ==
    valid_sections \cup {"invalid_section", "nonexistent", "Header",
                         "_initialize_data", "__init__"}

IdSegments ==
    { <<"1">>, <<"6">>, <<"7">>, <<"0", "1">>, <<"9", "9", "9">>, <<"-", "1">>,
      <<"a", "b", "c">> }

PlainPaths ==
    {"/api/health", "/api/content", "/api/categories", "/api/contact",
     "/api/debug/data", "/api/debug/logs", "/api/nonexistent", "/"}

Requests ==
    {Url(b, "", <<>>, NoArgs) : b \in PlainPaths}
    \cup {Url("/api/content/", n, <<>>, NoArgs) : n \in SectionNames}
    \cup {Url("/api/cards/", "", seg, NoArgs) : seg \in IdSegments}
    \cup {Url("/api/cards", "", <<>>, a) : a \in FewCardsArgs}

(***************************************************************************)
(* State machine                                                           *)
(***************************************************************************)
NoResponse == [status |-> 0, body |-> [none |-> TRUE]]

\* The threads of the server that handle requests side by side (app.run
\* serves each request in a thread of its own); each holds its own request
\* and response and its position in the handling of the request;
\* log_at_accept records how many lines the log held when the thread took
\* its request.
Threads == {1, 2}

Idle ==
    [pc |-> "idle", request |-> NoRequest, response |-> NoResponse,
     log_at_accept |-> 0]

NoWorkers == [w \in Threads |-> Idle]

InFlight == request # NoRequest /\ response = NoResponse

\* The most lines one request writes to the log: log_request, the view's
\* info line, four filter lines, its closing debug line, log_response.
LinesPerRequest == 1 + 1 + 4 + 1 + 1

Init ==
    /\ website_data = WebsiteData
    /\ debug \in BOOLEAN
    /\ now = 0
    /\ logLines = 0
    /\ request = NoRequest
    /\ response = NoResponse
    /\ workers = NoWorkers

\* A request arrives and @app.before_request log_request logs it.
Receive ==
    /\ ~InFlight
    /\ logLines + LinesPerRequest <= MaxLogLines
    /\ \E req \in Requests : request' = req
    /\ response' = NoResponse
    /\ logLines' = logLines + 1
    /\ UNCHANGED <<website_data, debug, now, workers>>

\* The view's outcome becomes the response and @app.after_request
\* log_response logs it.
Finish(outcome) ==
    /\ response' = respond(outcome, now)
    /\ logLines' = logLines + respond_lines(outcome) + 1
    /\ UNCHANGED <<debug, now, request, workers>>

HealthCheck ==
    /\ InFlight /\ endpoint(request) = "health_check"
    /\ Finish(health_check(website_data, debug, now))
    /\ UNCHANGED website_data

GetAllContent ==
    /\ InFlight /\ endpoint(request) = "get_all_content"
    /\ Finish(get_all_content(website_data))
    /\ UNCHANGED website_data

GetSectionContent ==
    /\ InFlight /\ endpoint(request) = "get_section_content"
    /\ Finish(get_section_content(website_data, request.section, now))
    /\ UNCHANGED website_data

GetCards ==
    /\ InFlight /\ endpoint(request) = "get_cards"
    /\ Finish(get_cards(website_data, request.args, now))
    /\ website_data' = store_after_get_cards(website_data, request.args)

GetCardById ==
    /\ InFlight /\ endpoint(request) = "get_card_by_id"
    /\ Finish(get_card_by_id(website_data,
                             int_converter_to_python(request.idseg), now))
    /\ UNCHANGED website_data

GetCategories ==
    /\ InFlight /\ endpoint(request) = "get_categories"
    /\ Finish(get_categories(website_data, now))
    /\ UNCHANGED website_data

GetContactInfo ==
    /\ InFlight /\ endpoint(request) = "get_contact_info"
    /\ Finish(get_contact_info(website_data, now))
    /\ UNCHANGED website_data

DebugDataStructure ==
    /\ InFlight /\ endpoint(request) = "debug_data_structure"
    /\ Finish(debug_data_structure(website_data, debug, now))
    /\ UNCHANGED website_data

DebugLogs ==
    /\ InFlight /\ endpoint(request) = "debug_logs"
    /\ Finish(debug_logs(debug, logLines, now))
    /\ UNCHANGED website_data

\* No rule matches: the 404 handler answers and logs one warning.
NotFound ==
    /\ InFlight /\ endpoint(request) = "not_found"
    /\ response' = not_found(request, now)
    /\ logLines' = logLines + 1 + 1
    /\ UNCHANGED <<website_data, debug, now, request, workers>>

\* The wall clock advances.
Tick ==
    /\ now < MaxTime
    /\ now' = now + 1
    /\ UNCHANGED <<website_data, debug, logLines, request, response, workers>>

Next ==
    \/ Receive
    \/ HealthCheck
    \/ GetAllContent
    \/ GetSectionContent
    \/ GetCards
    \/ GetCardById
    \/ GetCategories
    \/ GetContactInfo
    \/ DebugDataStructure
    \/ DebugLogs
    \/ NotFound
    \/ Tick

Spec == Init /\ [][Next]_vars

(***************************************************************************)
(* The card query on its own: one /api/cards request with any of the       *)
(* filter specs of CardsArgs has arrived and get_cards answers it.         *)
(***************************************************************************)
InitCards ==
    /\ website_data = WebsiteData
    /\ debug \in BOOLEAN
    /\ now = 0
    /\ logLines = 1
    /\ request \in CardsRequests
    /\ response = NoResponse
    /\ workers = NoWorkers

NextCards == GetCards

SpecCards == InitCards /\ [][NextCards]_vars

(***************************************************************************)
(* The service over a store one of whose attributes is None, as the test   *)
(* suite patches it (patch.object(website_data, name, None)): the          *)
(* defensive branches of the views become reachable.                       *)
(***************************************************************************)
PatchedStores ==
    {WebsiteData}
    \cup {[WebsiteData EXCEPT ![a] = None] : a \in SectionAttrs}
    \cup {[a \in DOMAIN WebsiteData \cup {"nonexistent"} |->
              IF a = "nonexistent" THEN None ELSE WebsiteData[a]]}

InitPatched ==
    /\ website_data \in PatchedStores
    /\ debug \in BOOLEAN
    /\ now = 0
    /\ logLines = 0
    /\ request = NoRequest
    /\ response = NoResponse
    /\ workers = NoWorkers

SpecPatched == InitPatched /\ [][Next]_vars

(***************************************************************************)
(* The service while app.config['DEBUG'] is switched at run time, as the   *)
(* test suite does.                                                        *)
(***************************************************************************)
SetDebug ==
    /\ debug' = ~debug
    /\ UNCHANGED <<website_data, now, logLines, request, response, workers>>

NextDebug ==
    \/ Receive
    \/ HealthCheck
    \/ GetAllContent
    \/ GetSectionContent
    \/ GetCards
    \/ GetCardById
    \/ GetCategories
    \/ GetContactInfo
    \/ DebugDataStructure
    \/ DebugLogs
    \/ NotFound
    \/ Tick
    \/ SetDebug

SpecDebug == Init /\ [][NextDebug]_vars

(***************************************************************************)
(* The category list on its own: /api/categories answered over galleries   *)
(* whose cards carry other categories than the shipped ones, the declared  *)
(* list being the shipped one.                                             *)
(***************************************************************************)
\* The galleries in which each card keeps its category or carries one the
\* list does not declare.
RecategorisedGalleries ==
    {[Gallery EXCEPT !.cards =
         [k \in 1..Len(CatalogCards) |->
             IF k \in moved
             THEN [CatalogCards[k] EXCEPT !.category = "anniversary"]
             ELSE CatalogCards[k]]] :
     moved \in SUBSET (1..Len(CatalogCards))}

InitCategories ==
    /\ website_data \in {[WebsiteData EXCEPT !["gallery"] = Some(g)] :
                            g \in RecategorisedGalleries}
    /\ debug \in BOOLEAN
    /\ now = 0
    /\ logLines = 1
    /\ request = Url("/api/categories", "", <<>>, NoArgs)
    /\ response = NoResponse
    /\ workers = NoWorkers

NextCategories == GetCategories

SpecCategories == InitCategories /\ [][NextCategories]_vars

(***************************************************************************)
(* The service handling requests in several threads at once.  The threads  *)
(* share the store, the configuration and the log file; flask.request is   *)
(* local to the thread.  A request is handled in three steps, the          *)
(* before_request hook, the view (or the 404 handler) and the              *)
(* after_request hook, and the steps of different threads interleave.      *)
(***************************************************************************)
ThreadRequests ==
    {Url(b, "", <<>>, NoArgs) :
        b \in {"/api/health", "/api/content", "/api/categories",
               "/api/debug/data", "/api/debug/logs", "/api/nonexistent"}}
    \cup {Url("/api/content/", n, <<>>, NoArgs) : n \in {"hero", "invalid_section"}}
    \cup {Url("/api/cards/", "", seg, NoArgs) : seg \in {<<"1">>, <<"7">>}}
    \cup {Url("/api/cards", "", <<>>, [NoArgs EXCEPT !.category = Some("birthday")])}

\* Mutant: the request object is a global, the one of the first thread.
current_request_global(w) == workers[1].request

\* flask.request in thread w: the request of that thread.
current_request(w) == workers[w].request

\* Thread w takes a request.
Accept(w) ==
    /\ workers[w].pc \in {"idle", "done"}
    /\ logLines + LinesPerRequest <= MaxLogLines
    /\ \E req \in ThreadRequests :
          workers' = [workers EXCEPT ![w] =
                         [pc |-> "before_request", request |-> req,
                          response |-> NoResponse, log_at_accept |-> logLines]]
    /\ UNCHANGED <<website_data, debug, now, logLines, request, response>>

\* @app.before_request log_request in thread w.
LogRequest(w) ==
    /\ workers[w].pc = "before_request"
    /\ logLines' = logLines + 1
    /\ workers' = [workers EXCEPT ![w].pc = "view"]
    /\ UNCHANGED <<website_data, debug, now, request, response>>

\* The view of thread w's request runs, or the 404 handler when no rule
\* matches, on the store and the log as they are at that moment.
RunView(w) ==
    /\ workers[w].pc = "view"
    /\ LET req == current_request(w)
       IN  IF endpoint(req) = "not_found"
           THEN /\ workers' = [workers EXCEPT ![w].pc = "after_request",
                                               ![w].response = not_found(req, now)]
                /\ logLines' = logLines + 1
                /\ UNCHANGED website_data
           ELSE LET outcome == view_outcome(req, website_data, debug, logLines, now)
                IN  /\ workers' = [workers EXCEPT
                                      ![w].pc = "after_request",
                                      ![w].response = respond(outcome, now)]
                    /\ logLines' = logLines + respond_lines(outcome)
                    /\ website_data' =
                          IF endpoint(req) = "get_cards"
                          THEN store_after_get_cards(website_data, req.args)
                          ELSE website_data
    /\ UNCHANGED <<debug, now, request, response>>

\* @app.after_request log_response in thread w; the response is sent.
LogResponse(w) ==
    /\ workers[w].pc = "after_request"
    /\ logLines' = logLines + 1
    /\ workers' = [workers EXCEPT ![w].pc = "done"]
    /\ UNCHANGED <<website_data, debug, now, request, response>>

NextThreads ==
    \/ \E w \in Threads : Accept(w)
    \/ \E w \in Threads : LogRequest(w)
    \/ \E w \in Threads : RunView(w)
    \/ \E w \in Threads : LogResponse(w)
    \/ Tick

SpecThreads == Init /\ [][NextThreads]_vars

(***************************************************************************)
(* Properties                                                              *)
(***************************************************************************)
Answered == request # NoRequest /\ response # NoResponse

CardsAnswered == Answered /\ request.base = "/api/cards"

Catalog == Val(website_data["gallery"]).cards

\* The numeric value, in hundredths, of the decimal literals of PriceValues.
Numeric ==
    (<<"4", ".", "9", "9">> :> 499) @@ (<<"5", ".", "0">> :> 500)
    @@ (<<"6", ".", "9", "9">> :> 699)

IsBound(arg) == IsNone(arg) \/ Val(arg) \in DOMAIN Numeric

\* The non-empty tags a raw tags value names.
NamedTags(raw) == {raw[i] : i \in 1..Len(raw)} \ {","}

\* cards holds exactly the catalog cards for which want holds, each once, in
\* catalog order.
ExactlyInOrder(cards, want) ==
    /\ \A i \in 1..Len(cards) :
          \E k \in 1..Len(Catalog) : Catalog[k] = cards[i] /\ want[k]
    /\ \A k \in 1..Len(Catalog) :
          want[k] => \E i \in 1..Len(cards) : cards[i] = Catalog[k]
    /\ \A i, j \in 1..Len(cards) :
          i < j => \E k, l \in 1..Len(Catalog) :
                      k < l /\ Catalog[k] = cards[i] /\ Catalog[l] = cards[j]

\* C1: with only category=c, c a declared category, /api/cards returns
\* exactly the catalog cards of category c, in catalog order.
C1_CategoryFilter ==
    \A c \in {"birthday", "sympathy", "wedding", "thank_you", "holiday", "get_well"} :
        (CardsAnswered /\ request.args = [NoArgs EXCEPT !.category = Some(c)])
        => /\ response.status = 200
           /\ ExactlyInOrder(response.body.cards,
                             [k \in 1..Len(Catalog) |-> Catalog[k].category = c])

C1_Witness ==
    /\ CardsAnswered
    /\ request.args = [NoArgs EXCEPT !.category = Some("wedding")]
    /\ Len(response.body.cards) = 1
    /\ response.body.cards[1].id = 3

\* C2: with only price bounds, each absent or a decimal, /api/cards returns
\* exactly the catalog cards with min_price <= price <= max_price, both
\* bounds inclusive, an absent bound being no bound.
C2_PriceRange ==
    (/\ CardsAnswered
     /\ IsNone(request.args.category) /\ IsNone(request.args.tags)
     /\ IsBound(request.args.min_price) /\ IsBound(request.args.max_price))
    => /\ response.status = 200
       /\ ExactlyInOrder(response.body.cards,
            [k \in 1..Len(Catalog) |->
                /\ IsNone(request.args.min_price)
                   \/ Numeric[Val(request.args.min_price)] <= Catalog[k].price
                /\ IsNone(request.args.max_price)
                   \/ Catalog[k].price <= Numeric[Val(request.args.max_price)]])

\* Both bounds equal the price of cards 1 and 5, which are returned.
C2_Witness ==
    /\ CardsAnswered
    /\ request.args = [NoArgs EXCEPT !.min_price = Some(<<"4", ".", "9", "9">>),
                                     !.max_price = Some(<<"4", ".", "9", "9">>)]
    /\ Len(response.body.cards) = 2
    /\ response.body.cards[1].id = 1 /\ response.body.cards[2].id = 5

\* C3: with only tags given, naming at least one tag, a catalog card is in
\* the /api/cards result iff one of its tags equals one of the requested
\* tags.
C3_TagsIntersection ==
    (/\ CardsAnswered
     /\ IsNone(request.args.category)
     /\ IsNone(request.args.min_price) /\ IsNone(request.args.max_price)
     /\ ~IsNone(request.args.tags)
     /\ NamedTags(Val(request.args.tags)) # {})
    => /\ response.status = 200
       /\ ExactlyInOrder(response.body.cards,
            [k \in 1..Len(Catalog) |->
                \E j \in 1..Len(Catalog[k].tags) :
                    Catalog[k].tags[j] \in NamedTags(Val(request.args.tags))])

\* C4: the /api/cards result is exactly the catalog cards that satisfy the
\* predicate of every parameter that is present.  The claim is read in the
\* way most favourable to it: price bounds are decimals, and an empty
\* category and a tags value that names no tag count as absent.
C4_Conjunction ==
    (/\ CardsAnswered
     /\ request.args.category # Some("")
     /\ IsBound(request.args.min_price) /\ IsBound(request.args.max_price))
    => /\ response.status = 200
       /\ ExactlyInOrder(response.body.cards,
            [k \in 1..Len(Catalog) |->
                /\ IsNone(request.args.category)
                   \/ Catalog[k].category = Val(request.args.category)
                /\ IsNone(request.args.min_price)
                   \/ Numeric[Val(request.args.min_price)] <= Catalog[k].price
                /\ IsNone(request.args.max_price)
                   \/ Catalog[k].price <= Numeric[Val(request.args.max_price)]
                /\ \/ IsNone(request.args.tags)
                   \/ NamedTags(Val(request.args.tags)) = {}
                   \/ \E j \in 1..Len(Catalog[k].tags) :
                         Catalog[k].tags[j] \in NamedTags(Val(request.args.tags))])

\* C5: the cards of every /api/cards answer are a subsequence of the
\* catalog: each is a catalog card and they come in strictly increasing
\* catalog position, so none is repeated.
C5_Subsequence ==
    CardsAnswered
    => /\ response.status = 200
       /\ \E pos \in [1..Len(response.body.cards) -> 1..Len(Catalog)] :
             /\ \A i \in DOMAIN pos : Catalog[pos[i]] = response.body.cards[i]
             /\ \A i, j \in DOMAIN pos : i < j => pos[i] < pos[j]

\* Two tags are requested, the second one matching the earlier card.
C5_Witness ==
    /\ CardsAnswered
    /\ request.args = [NoArgs EXCEPT !.tags = Some(<<"gold", ",", "birthday">>)]
    /\ Len(response.body.cards) = 2
    /\ response.body.cards[1].id = 1 /\ response.body.cards[2].id = 3

\* C6: filtering the cards of an /api/cards answer again with the filters of
\* the same request returns the same cards in the same order.
C6_Idempotent ==
    CardsAnswered
    => LET p == get_cards_params(request.args)
       IN  apply_filters(response.body.cards,
                         p.category, p.min_price, p.max_price, p.tags)
           = response.body.cards

C6_Witness ==
    /\ CardsAnswered
    /\ request.args = [NoArgs EXCEPT !.tags = Some(<<"gold">>),
                                     !.max_price = Some(<<"6", ".", "9", "9">>)]
    /\ Len(response.body.cards) = 1
    /\ response.body.cards[1].id = 3

\* C7: a non-numeric min_price or max_price is answered with 400
\* INVALID_PARAMETER and no card list.
C7_InvalidParameter ==
    (/\ CardsAnswered
     /\ \/ request.args.min_price = Some(<<"a", "b", "c">>)
        \/ request.args.max_price = Some(<<"a", "b", "c">>))
    => /\ response.status = 400
       /\ response.body.error.error_code = "INVALID_PARAMETER"

CardByIdAnswered == Answered /\ request.base = "/api/cards/"

\* The integer a decimal literal with an optional minus sign denotes.
IsIntegerLiteral(seg) ==
    \/ Len(seg) > 0 /\ \A i \in 1..Len(seg) : seg[i] \in Digits
    \/ Len(seg) > 1 /\ seg[1] = "-" /\ \A i \in 2..Len(seg) : seg[i] \in Digits

IntegerOf ==
    (<<"1">> :> 1) @@ (<<"6">> :> 6) @@ (<<"7">> :> 7) @@ (<<"0", "1">> :> 1)
    @@ (<<"9", "9", "9">> :> 999) @@ (<<"-", "1">> :> (0 - 1))

\* The answer /api/cards/{id} owes for the integer id: the catalog card of
\* that id, unchanged, or else 404 CARD_NOT_FOUND with the id in the message.
CardByIdAnswer(id) ==
    IF \E k \in 1..Len(Catalog) : Catalog[k].id = id
    THEN /\ response.status = 200
         /\ \E k \in 1..Len(Catalog) :
               Catalog[k].id = id /\ response.body.card = Catalog[k]
    ELSE /\ response.status = 404
         /\ response.body.error.status_code = 404
         /\ response.body.error.error_code = "CARD_NOT_FOUND"
         /\ response.body.error.message = <<"Card not found with ID: ", id>>

\* C9 as stated: for every integer id, negative ones included,
\* /api/cards/{id} answers with the card or with 404 CARD_NOT_FOUND.
C9_EveryInteger ==
    (CardByIdAnswered /\ IsIntegerLiteral(request.idseg))
    => CardByIdAnswer(IntegerOf[request.idseg])

\* C9 as amended: for every non-negative integer id (a segment of decimal
\* digits, which is what the route's int converter accepts),
\* /api/cards/{id} answers 200 with the catalog card of that id, unchanged,
\* or else 404 CARD_NOT_FOUND with 'Card not found with ID: <id>', never 500;
\* a negative id matches no route and gets the generic 404 NOT_FOUND.
C9_CardById ==
    /\ (CardByIdAnswered /\ IsIntegerLiteral(request.idseg)
                         /\ request.idseg[1] # "-")
       => CardByIdAnswer(IntegerOf[request.idseg])
    /\ (CardByIdAnswered /\ IsIntegerLiteral(request.idseg)
                         /\ request.idseg[1] = "-")
       => /\ response.status = 404
          /\ response.body.error.error_code = "NOT_FOUND"
    /\ CardByIdAnswered => response.status # 500

C9_Witness ==
    /\ CardByIdAnswered
    /\ request.idseg = <<"9", "9", "9">>
    /\ response.status = 404
    /\ response.body.error.error_code = "CARD_NOT_FOUND"

SectionAnswered == Answered /\ request.base = "/api/content/"

\* C11: for each of the eight recognised names, when the store's value for
\* the name is None, /api/content/{name} is answered 404 SECTION_NOT_FOUND,
\* the raised error passed through as it is and not rewrapped as a 500.
C11_SectionNotFound ==
    \A n \in {"header", "hero", "about", "gallery", "contact", "footer",
              "metadata", "theme"} :
        (SectionAnswered /\ request.section = n /\ IsNone(website_data[n]))
        => /\ response.status = 404
           /\ DOMAIN response.body = {"error"}
           /\ response.body.error.status_code = 404
           /\ response.body.error.error_code = "SECTION_NOT_FOUND"
           /\ response.body.error.message = <<"Section not found: ", n>>

C11_Witness ==
    /\ SectionAnswered
    /\ request.section = "hero"
    /\ IsNone(website_data["hero"])
    /\ response.status = 404
    /\ response.body.error.error_code = "SECTION_NOT_FOUND"

\* C12: with the store's attribute 'nonexistent' set to None,
\* /api/content/nonexistent is answered 404 SECTION_NOT_FOUND with the
\* message 'Section not found: nonexistent'.
C12_NonexistentSection ==
    (/\ SectionAnswered
     /\ request.section = "nonexistent"
     /\ "nonexistent" \in DOMAIN website_data
     /\ IsNone(website_data["nonexistent"]))
    => /\ response.status = 404
       /\ response.body.error.error_code = "SECTION_NOT_FOUND"
       /\ response.body.error.message = <<"Section not found: ", "nonexistent">>

AllContentAnswered == Answered /\ request.base = "/api/content"

\* The body GET /api/content has in the current state of the store.
AllContentNow == respond(get_all_content(website_data), now).body

\* C13: GET /api/content returns the eight sections keyed by name, and the
\* data of a successful GET /api/content/n is the entry n of what
\* GET /api/content returns in the same state, for each of the eight names.
C13_SectionsConsistent ==
    /\ AllContentAnswered
       => /\ response.status = 200
          /\ DOMAIN response.body = valid_sections
          /\ \A n \in valid_sections : response.body[n] = website_data[n]
          /\ response.body = AllContentNow
    /\ \A n \in valid_sections :
          (SectionAnswered /\ request.section = n /\ response.status = 200)
          => /\ response.body.section = n
             /\ Some(response.body.data) = AllContentNow[n]

C13_Witness ==
    /\ SectionAnswered
    /\ request.section = "footer"
    /\ response.status = 200
    /\ Some(response.body.data) = AllContentNow["footer"]
    /\ AllContentNow["footer"] # AllContentNow["metadata"]

\* A step in which a view or an error handler answers the request in flight.
Answering == InFlight /\ response' # NoResponse

\* The timestamp a success body embeds: at top level, or inside the
\* debug_info / debug_logs object of the diagnostic routes.
TimestampOf(body) ==
    IF "timestamp" \in DOMAIN body THEN Some(body.timestamp)
    ELSE IF "debug_info" \in DOMAIN body THEN Some(body.debug_info.timestamp)
    ELSE IF "debug_logs" \in DOMAIN body THEN Some(body.debug_logs.timestamp)
    ELSE None

ErrorFields == {"message", "status_code", "error_code", "timestamp"}

ErrorEnvelope(resp) ==
    /\ DOMAIN resp.body = {"error"}
    /\ ErrorFields \subseteq DOMAIN resp.body.error
    /\ resp.body.error.status_code = resp.status

\* What the view of the request in flight returns or raises.
OutcomeInFlight == view_outcome(request, website_data, debug, logLines, now)

RaisesAPIError ==
    /\ endpoint(request) # "not_found"
    /\ OutcomeInFlight.kind = "raise"
    /\ OutcomeInFlight.exc.type = "APIError"

\* C15: every response that is not a 200 is an object with the single key
\* 'error', whose object holds message, status_code, error_code and
\* timestamp, with status_code equal to the HTTP status; when the view
\* raises an APIError the three fields are those of the raised error.
C15_ErrorEnvelope ==
    [][Answering
       => /\ response'.status # 200 => ErrorEnvelope(response')
          /\ RaisesAPIError
             => /\ response'.status # 200
                /\ response'.body.error.message = OutcomeInFlight.exc.message
                /\ response'.body.error.status_code = OutcomeInFlight.exc.status_code
                /\ response'.body.error.error_code = OutcomeInFlight.exc.error_code
                /\ response'.body.error.timestamp = now]_vars

C15_Witness ==
    /\ Answered
    /\ endpoint(request) = "get_card_by_id"
    /\ response.status = 404
    /\ ErrorEnvelope(response)
    /\ response.body.error.error_code = "CARD_NOT_FOUND"

\* The paths of the nine rules of the URL map.
RoutePaths ==
    {"/api/health", "/api/content", "/api/content/", "/api/cards", "/api/cards/",
     "/api/categories", "/api/contact", "/api/debug/data", "/api/debug/logs"}

MatchesNoRoute(req) ==
    \/ req.base \notin RoutePaths
    \/ req.base = "/api/cards/" /\ ~IsIntegerLiteral(req.idseg)
    \/ /\ req.base = "/api/cards/"
       /\ IsIntegerLiteral(req.idseg)
       /\ IntegerOf[req.idseg] < 0

\* C16: a request whose path matches no rule is answered 404 NOT_FOUND,
\* 'Resource not found', with the requested URL as requested_url.
C16_UnmatchedRoute ==
    (Answered /\ MatchesNoRoute(request))
    => /\ response.status = 404
       /\ response.body.error.error_code = "NOT_FOUND"
       /\ response.body.error.message = <<"Resource not found">>
       /\ response.body.error.status_code = 404
       /\ response.body.error.requested_url = request

C16_Witness ==
    /\ Answered
    /\ request.base = "/api/cards/"
    /\ request.idseg = <<"a", "b", "c">>
    /\ response.status = 404
    /\ response.body.error.error_code = "NOT_FOUND"
    /\ response.body.error.requested_url = request

\* The views whose try block can fail on the store, and what the try block
\* of the request in flight returns or raises before the except clauses.
FallibleViews ==
    {"health_check", "get_section_content", "get_cards", "get_card_by_id",
     "get_categories"}

TryOutcomeInFlight ==
    CASE endpoint(request) = "health_check" ->
            health_check_try(website_data, debug, now)
      [] endpoint(request) = "get_section_content" ->
            get_section_content_try(website_data, request.section, now)
      [] endpoint(request) = "get_cards" ->
            get_cards_try(website_data, request.args, now)
      [] endpoint(request) = "get_card_by_id" ->
            get_card_by_id_try(website_data,
                               int_converter_to_python(request.idseg), now)
      [] endpoint(request) = "get_categories" ->
            get_categories_try(website_data, now)

\* An exception that is not an APIError is raised while the request in
\* flight is handled.
InternalFailure ==
    /\ endpoint(request) \in FallibleViews
    /\ TryOutcomeInFlight.kind = "raise"
    /\ TryOutcomeInFlight.exc.type # "APIError"

RouteFailure ==
    [health_check |->
        [error_code |-> "HEALTH_CHECK_FAILED",
         message    |-> <<"Health check failed">>],
     get_section_content |->
        [error_code |-> "SECTION_RETRIEVAL_FAILED",
         message    |-> <<"Failed to retrieve section content">>],
     get_cards |->
        [error_code |-> "CARDS_RETRIEVAL_FAILED",
         message    |-> <<"Failed to retrieve cards">>],
     get_card_by_id |->
        [error_code |-> "CARD_RETRIEVAL_FAILED",
         message    |-> <<"Failed to retrieve card">>],
     get_categories |->
        [error_code |-> "CATEGORIES_RETRIEVAL_FAILED",
         message    |-> <<"Failed to retrieve categories">>]]

\* C17 as stated: an internal failure in any route handler is answered 500
\* INTERNAL_ERROR 'Internal server error'.
C17_InternalError ==
    [][(Answering /\ InternalFailure)
       => /\ response'.status = 500
          /\ response'.body.error.error_code = "INTERNAL_ERROR"
          /\ response'.body.error.message = <<"Internal server error">>]_vars

\* C17 amended: an internal failure in a route handler is caught by the
\* handler and answered 500 with the route's own failure code and message;
\* no route lets a failure through to the INTERNAL_ERROR handler.
C17_RouteFailure ==
    [][Answering
       => /\ InternalFailure
             => /\ response'.status = 500
                /\ response'.body.error.status_code = 500
                /\ response'.body.error.error_code =
                       RouteFailure[endpoint(request)].error_code
                /\ response'.body.error.message =
                       RouteFailure[endpoint(request)].message
          /\ response'.status # 200
             => response'.body.error.error_code # "INTERNAL_ERROR"]_vars

C17_Witness ==
    /\ Answered
    /\ endpoint(request) = "get_cards"
    /\ IsNone(website_data["gallery"])
    /\ response.status = 500
    /\ response.body.error.error_code = "CARDS_RETRIEVAL_FAILED"
    /\ response.body.error.message = <<"Failed to retrieve cards">>

ErrorAnswered == Answered /\ response.status # 200

\* The taxonomy of error kinds with the status of each.
TaxonomyStatus ==
    [INVALID_SECTION   |-> 400,
     SECTION_NOT_FOUND |-> 404,
     CARD_NOT_FOUND    |-> 404,
     INVALID_PARAMETER |-> 400,
     NOT_FOUND         |-> 404,
     INTERNAL_ERROR    |-> 500,
     DEBUG_DISABLED    |-> 403]

\* The failure codes the routes raise from their except clauses.
RouteFailureCodes ==
    {"HEALTH_CHECK_FAILED", "CONTENT_RETRIEVAL_FAILED", "SECTION_RETRIEVAL_FAILED",
     "CARDS_RETRIEVAL_FAILED", "CARD_RETRIEVAL_FAILED",
     "CATEGORIES_RETRIEVAL_FAILED", "CONTACT_RETRIEVAL_FAILED",
     "DEBUG_RETRIEVAL_FAILED", "DEBUG_LOGS_RETRIEVAL_FAILED"}

\* C18 as stated: every error response carries a code of the taxonomy with
\* the status of that code; no route emits a code of its own.
C18_TaxonomyOnly ==
    ErrorAnswered
    => /\ response.body.error.error_code \in DOMAIN TaxonomyStatus
       /\ response.status = TaxonomyStatus[response.body.error.error_code]

\* C18 amended: every error response carries a code of the taxonomy or one
\* of the routes' own failure codes, and each code is always paired with its
\* one status, 500 for every route failure code.
C18_CodeFixesStatus ==
    ErrorAnswered
    => LET code == response.body.error.error_code
       IN  IF code \in RouteFailureCodes
           THEN response.status = 500
           ELSE /\ code \in DOMAIN TaxonomyStatus
                /\ response.status = TaxonomyStatus[code]

C18_Witness ==
    /\ ErrorAnswered
    /\ endpoint(request) = "health_check"
    /\ response.body.error.error_code = "HEALTH_CHECK_FAILED"
    /\ response.status = 500

DebugRoutes == {"debug_data_structure", "debug_logs"}

\* The response the request in flight gets when the debug flag is dbg.
ResponseUnder(dbg) ==
    IF endpoint(request) = "not_found"
    THEN not_found(request, now)
    ELSE respond(view_outcome(request, website_data, dbg, logLines, now), now)

\* A response without the debug_mode field of /api/health.
WithoutDebugMode(resp) ==
    IF resp.status = 200 /\ "debug_mode" \in DOMAIN resp.body
    THEN [resp EXCEPT !.body.debug_mode = FALSE]
    ELSE resp

\* C19: whenever a request is answered, after any requests and any changes
\* of the debug flag, a diagnostic route answers 200 if the flag is on at
\* that moment and 403 DEBUG_DISABLED if it is off; any other route answers
\* what it would answer under the other value of the flag, the debug_mode
\* field of /api/health apart.
C19_DebugFlag ==
    [][Answering
       => IF endpoint(request) \in DebugRoutes
          THEN IF debug
               THEN response'.status = 200
               ELSE /\ response'.status = 403
                    /\ response'.body.error.status_code = 403
                    /\ response'.body.error.error_code = "DEBUG_DISABLED"
                    /\ response'.body.error.message =
                           <<"Debug endpoint not available in production">>
          ELSE /\ response' = ResponseUnder(debug)
               /\ WithoutDebugMode(response') = WithoutDebugMode(ResponseUnder(~debug))
               /\ endpoint(request) = "health_check" /\ response'.status = 200
                  => response'.body.debug_mode = debug]_vars

\* After an earlier request, a diagnostic route has answered 200 and the
\* flag has been switched off since.
C19_Witness ==
    /\ Answered
    /\ endpoint(request) \in DebugRoutes
    /\ response.status = 200
    /\ ~debug
    /\ logLines > 4

\* C20: the store is never written after startup: every section, the card
\* list with each card's fields and tags, and the category list are what
\* they were at startup, whatever requests have been answered.
C20_StoreImmutable ==
    /\ website_data = WebsiteData
    /\ \A a \in SectionAttrs : website_data[a] = WebsiteData[a]
    /\ Val(website_data["gallery"]).cards = CatalogCards
    /\ Val(website_data["gallery"]).categories = CatalogCategories

\* A filtered card query has been answered with fewer cards than the
\* catalog holds, and the catalog is whole.
C20_Witness ==
    /\ CardsAnswered
    /\ response.status = 200
    /\ response.body.total_count < Len(CatalogCards)
    /\ ~IsNone(response.body.filters_applied.category)
    /\ Len(Val(website_data["gallery"]).cards) = Len(CatalogCards)

\* A response with its timestamp blanked.
WithoutTimestamp(resp) ==
    IF "timestamp" \in DOMAIN resp.body
    THEN [resp EXCEPT !.body.timestamp = 0]
    ELSE IF "error" \in DOMAIN resp.body
    THEN [resp EXCEPT !.body.error.timestamp = 0]
    ELSE IF "debug_info" \in DOMAIN resp.body
    THEN [resp EXCEPT !.body.debug_info.timestamp = 0]
    ELSE IF "debug_logs" \in DOMAIN resp.body
    THEN [resp EXCEPT !.body.debug_logs.timestamp = 0]
    ELSE resp

\* The response a request gets as the first request after startup: the
\* store as built and a log that holds the request's own log_request line.
ResponseAlone(req, dbg) ==
    IF endpoint(req) = "not_found"
    THEN not_found(req, 0)
    ELSE respond(view_outcome(req, WebsiteData, dbg, 1, 0), 0)

\* C21 as stated: for every route the response, its timestamp apart, is the
\* one the request gets as the first request after startup, whatever
\* requests were handled before it.
C21_EveryRouteIndependent ==
    [][Answering
       => WithoutTimestamp(response') =
              WithoutTimestamp(ResponseAlone(request, debug))]_vars

\* C21 amended: for every route other than /api/debug/logs the response,
\* its timestamp apart, is the one the request gets as the first request
\* after startup; the 200 response of /api/debug/logs reports the tail of
\* the log, which holds one more line for every line logged before.
C21_Independent ==
    [][Answering
       => IF endpoint(request) = "debug_logs" /\ response'.status = 200
          THEN /\ DOMAIN response'.body = {"debug_logs"}
               /\ response'.body.debug_logs.total_entries =
                      IF logLines + 1 > LogTail THEN LogTail ELSE logLines + 1
          ELSE WithoutTimestamp(response') =
                   WithoutTimestamp(ResponseAlone(request, debug))]_vars

\* A filtered card query answered after an earlier request as it would be
\* answered alone.
C21_Witness ==
    /\ CardsAnswered
    /\ logLines > LinesPerRequest
    /\ ~IsNone(request.args.category)
    /\ response.status = 200
    /\ WithoutTimestamp(response) = WithoutTimestamp(ResponseAlone(request, debug))

ThreadAnswered(w) == workers[w].pc = "done"

\* The response thread w's request gets when no other request is in flight
\* while it is handled: the store as built, and the log as it was when the
\* thread took the request plus the request's own log_request line.
ResponseIfAlone(w) ==
    LET req == workers[w].request
    IN  IF endpoint(req) = "not_found"
        THEN not_found(req, 0)
        ELSE respond(view_outcome(req, WebsiteData, debug,
                                  workers[w].log_at_accept + 1, 0), 0)

\* C22 as stated: under every interleaving every request gets, timestamp
\* apart, the response it would get handled alone.
C22_EveryRouteIsolated ==
    \A w \in Threads :
        ThreadAnswered(w)
        => WithoutTimestamp(workers[w].response) =
               WithoutTimestamp(ResponseIfAlone(w))

\* C22 amended: under every interleaving every request to a route other
\* than /api/debug/logs gets, timestamp apart, the response it would get
\* handled alone; a 200 response of /api/debug/logs reports a log tail at
\* least as long as alone, longer by the lines other threads wrote meanwhile.
C22_Isolated ==
    \A w \in Threads :
        ThreadAnswered(w)
        => IF /\ endpoint(workers[w].request) = "debug_logs"
              /\ workers[w].response.status = 200
           THEN /\ ResponseIfAlone(w).status = 200
                /\ workers[w].response.body.debug_logs.total_entries >=
                       ResponseIfAlone(w).body.debug_logs.total_entries
           ELSE WithoutTimestamp(workers[w].response) =
                    WithoutTimestamp(ResponseIfAlone(w))

\* Two threads have handled card requests whose steps interleaved: the
\* second took its request before the first had logged its own.
C22_Witness ==
    /\ \A w \in Threads : ThreadAnswered(w)
    /\ workers[1].log_at_accept = 0
    /\ workers[2].log_at_accept = 0
    /\ endpoint(workers[1].request) = "get_cards"
    /\ endpoint(workers[2].request) = "get_card_by_id"
    /\ workers[1].response.status = 200
    /\ workers[1].response.body.total_count = 1
    /\ workers[2].response.status = 200

\* The ids of a card list, in order.
IdsOf(cards) == [i \in 1..Len(cards) |-> cards[i].id]

OnlyArg(name, raw) == [NoArgs EXCEPT ![name] = Some(raw)]

\* C23: the catalog holds 6 cards and 6 distinct declared categories, and on
\* it category=birthday returns card 1 only, min_price=5.0 returns cards 2
\* and 3, tags=birthday,celebration returns card 1 only.
C23_ShippedCatalog ==
    /\ Len(Catalog) = 6
    /\ Len(Val(website_data["gallery"]).categories) = 6
    /\ Cardinality({Val(website_data["gallery"]).categories[i] : i \in 1..6}) = 6
    /\ CardsAnswered
       => /\ request.args = OnlyArg("category", "birthday")
             => response.status = 200 /\ IdsOf(response.body.cards) = <<1>>
          /\ request.args = OnlyArg("min_price", <<"5", ".", "0">>)
             => response.status = 200 /\ IdsOf(response.body.cards) = <<2, 3>>
          /\ request.args = OnlyArg("tags", <<"birthday", ",", "celebration">>)
             => response.status = 200 /\ IdsOf(response.body.cards) = <<1>>

C23_Witness ==
    /\ CardsAnswered
    /\ request.args = OnlyArg("min_price", <<"5", ".", "0">>)
    /\ response.status = 200
    /\ IdsOf(response.body.cards) = <<2, 3>>

CategoriesAnswered == Answered /\ request.base = "/api/categories"

\* C24: total_count of a /api/cards response is the length of its cards
\* list, and total_count of a /api/categories response is the length of its
\* categories list.
C24_TotalCount ==
    /\ (CardsAnswered /\ response.status = 200)
       => response.body.total_count = Len(response.body.cards)
    /\ (CategoriesAnswered /\ response.status = 200)
       => response.body.total_count = Len(response.body.categories)

C24_Witness ==
    /\ CardsAnswered
    /\ response.status = 200
    /\ response.body.total_count = 1
    /\ Len(response.body.cards) = 1
    /\ Len(Catalog) = 6

\* Whether each predicate was applied to the catalog for the parameters p.
CategoryApplied(p) == Truthy(p.category)
MinPriceApplied(p) == ~IsNone(p.min_price)
MaxPriceApplied(p) == ~IsNone(p.max_price)
TagsApplied(p) == tags_applied(p.tags)

\* C25: each field of filters_applied holds the requested value when its
\* predicate was applied and null exactly when the predicate was skipped.
C25_FiltersEcho ==
    (CardsAnswered /\ response.status = 200)
    => LET p == get_cards_params(request.args)
           f == response.body.filters_applied
       IN  /\ f.category = IF CategoryApplied(p) THEN request.args.category ELSE None
           /\ f.min_price = IF MinPriceApplied(p)
                            THEN Some(Numeric[Val(request.args.min_price)])
                            ELSE None
           /\ f.max_price = IF MaxPriceApplied(p)
                            THEN Some(Numeric[Val(request.args.max_price)])
                            ELSE None
           /\ f.tags = IF TagsApplied(p) THEN Some(split(Val(request.args.tags)))
                       ELSE None

C29_CategoryAlwaysApplied ==
    (CardsAnswered /\ ~IsNone(request.args.category))
    => /\ response.status = 200
       /\ \A i \in 1..Len(response.body.cards) :
             response.body.cards[i].category = Val(request.args.category)
       /\ (\A k \in 1..Len(CatalogCategories) :
              CatalogCategories[k] # Val(request.args.category))
          => response.body.cards = <<>>

\* The categories the cards of the store carry.
CardCategories == {Catalog[k].category : k \in 1..Len(Catalog)}

\* C26: /api/categories returns the declared category list, in declaration
\* order, whatever categories the cards carry.
C26_DeclaredCategories ==
    CategoriesAnswered
    => /\ response.status = 200
       /\ response.body.categories = CatalogCategories
       /\ response.body.categories = Val(website_data["gallery"]).categories

\* Answered over a gallery none of whose cards carries a declared category.
C26_Witness ==
    /\ CategoriesAnswered
    /\ response.status = 200
    /\ response.body.categories = CatalogCategories
    /\ CardCategories = {"anniversary"}

DeclaredCategories ==
    {Val(website_data["gallery"]).categories[i] :
        i \in 1..Len(Val(website_data["gallery"]).categories)}

\* C27: in every reachable state every catalog card has a declared
\* category, a positive price and a positive integer id that no other
\* catalog card has.
C27_CatalogWellFormed ==
    /\ \A k \in 1..Len(Catalog) :
          /\ Catalog[k].category \in DeclaredCategories
          /\ Catalog[k].price > 0
          /\ Catalog[k].id \in Nat
          /\ Catalog[k].id > 0
    /\ \A k, l \in 1..Len(Catalog) : Catalog[k].id = Catalog[l].id => k = l

\* The last card of the catalog has been served by id, with its declared
\* category and its price.
C27_Witness ==
    /\ CardByIdAnswered
    /\ response.status = 200
    /\ response.body.card = Catalog[Len(Catalog)]
    /\ response.body.card.category \in DeclaredCategories
    /\ response.body.card.price > 0

====
